---- MODULE Spec2Model ----
(***************************************************************************)
(* Model of the backtesting engine of the trading-strategy repository:     *)
(* BaseStrategy.backtest (the walk-forward position simulator) and         *)
(* BaseStrategy.calculate_performance_metrics, as driven by app.py.        *)
(*                                                                         *)
(* Python positions are 0-based, TLA+ sequences 1-based: bar k of the      *)
(* DataFrame is element k+1 of a column; At and Set hide the shift.        *)
(* Prices and capital are integers, so every sum and product of the code   *)
(* is exact; quotients (returns, percentages) are exact fractions.         *)
(* Timestamps are hours since the first bar of the feed.                   *)
(***************************************************************************)
EXTENDS Integers, Sequences, FiniteSets, TLC

VARIABLES
    initial_capital,    \* self.initial_capital
    caller_df,          \* the DataFrame the caller passes to backtest
    strategy_signals,   \* what generate_signals computes for caller_df
    pc,                 \* position of the run in backtest / app.py
    index,              \* df.index of the working copy
    Close,              \* df['Close']
    signal_line,        \* df['signal_line']
    position,           \* df['position']
    cash,               \* df['cash']
    holdings,           \* df['holdings']
    total_value,        \* df['total_value']
    returns,            \* df['returns']
    cumulative_returns, \* df['cumulative_returns'] (<<>> until line 128)
    trades,             \* the local list trades
    current_position,   \* local
    entry_price,        \* local
    entry_date,         \* local; <<>> is None, <<t>> is the timestamp t
    i,                  \* loop variable of line 41
    entries,            \* history: the entries recorded at lines 85-87, 92-94
    metrics,            \* the mapping calculate_performance_metrics returns
    formatted_metrics,  \* the mapping format_metrics_for_display returns
    prev                \* outcome of the caller's previous backtest call

vars == <<initial_capital, caller_df, strategy_signals, pc, index, Close,
          signal_line, position, cash, holdings, total_value, returns,
          cumulative_returns, trades, current_position, entry_price,
          entry_date, i, entries, metrics, formatted_metrics,
                   prev>>

----------------------------------------------------------------------------
(* Bounds and input sets *)

MaxBars == 3

Prices == {2, 3, 5}

Capitals == {4, 7}

Signals == {-1, 0, 1}

HoursPerDay == 24

DailyIndex(n) == [k \in 1..n |-> (k - 1) * HoursPerDay]

\* The worked examples of the specification, bar for bar.
Scenarios ==
    { [Close |-> <<100, 105, 95, 110>>, signal |-> <<0, 1, -1, 0>>,
       index |-> DailyIndex(4), capital |-> 1000],
      [Close |-> <<100, 100, 109, 110>>, signal |-> <<0, 1, -1, 0>>,
       index |-> DailyIndex(4), capital |-> 1000],
      [Close |-> <<100, 100, 104, 109>>, signal |-> <<0, 1, 0, 0>>,
       index |-> DailyIndex(4), capital |-> 1000] }

\* buyhold_strategy.py lines 12-22: the signal_line BuyHoldStrategy writes
\* for n bars, 0 everywhere, then +1 at iloc[1], then -1 at iloc[-1]
generate_signals(n) ==
    [k \in 1..n |-> IF k = n THEN -1 ELSE IF k = 2 THEN 1 ELSE 0]

\* A short sale whose buy-back cost reaches the whole account at bar 2.
WipeoutScenarios ==
    { [Close |-> <<2, 2, 4, 2>>, signal |-> <<0, -1, 0, 0>>,
       index |-> DailyIndex(4), capital |-> 4] }

Inputs ==
    Scenarios \cup WipeoutScenarios \cup
    UNION { { [Close |-> c, signal |-> s, index |-> DailyIndex(n), capital |-> k] :
                c \in [1..n -> Prices], s \in [1..n -> Signals], k \in Capitals }
            : n \in 1..MaxBars }

----------------------------------------------------------------------------
(* Arithmetic helpers *)

Abs(x) == IF x < 0 THEN -x ELSE x

Sign(x) == IF x > 0 THEN 1 ELSE IF x < 0 THEN -1 ELSE 0

RECURSIVE Gcd(_, _)
Gcd(a, b) == IF b = 0 THEN a ELSE Gcd(b, a % b)

\* A float quotient n/d as an exact fraction in lowest terms with den >= 0.
\* den = 0 is a non-finite float: 1/0 is inf, -1/0 is -inf, 0/0 is nan.
Rat(n, d) ==
    IF d = 0 THEN [num |-> Sign(n), den |-> 0]
    ELSE LET g == Gcd(Abs(n), Abs(d))
         IN  [num |-> Sign(d) * (n \div g), den |-> Abs(d) \div g]

Zero == Rat(0, 1)

RatMul(a, b) == Rat(a.num * b.num, a.den * b.den)

\* x + k for an integer k
RatAddInt(a, k) == Rat(a.num + k * a.den, a.den)

RatMulInt(a, k) == Rat(a.num * k, a.den)

RatAdd(a, b) ==
    IF a.den = 0 \/ b.den = 0
    THEN (IF a.den = 0 /\ b.den = 0 /\ a.num = b.num THEN a
          ELSE IF a.den = 0 /\ b.den # 0 THEN a
          ELSE IF b.den = 0 /\ a.den # 0 THEN b
          ELSE Rat(0, 0))
    ELSE Rat(a.num * b.den + b.num * a.den, a.den * b.den)

RatDivInt(a, k) == Rat(a.num, a.den * k)

RatLess(a, b) == a.den # 0 /\ b.den # 0 /\ a.num * b.den < b.num * a.den

IsFinite(a) == a.den # 0

\* a finite fraction rounded to an integer, ties to even
RoundHalfEven(a) ==
    LET q == a.num \div a.den
        r == a.num - q * a.den
    IN  IF 2 * r < a.den THEN q
        ELSE IF 2 * r > a.den THEN q + 1
        ELSE IF q % 2 = 0 THEN q ELSE q + 1

\* timedelta.days of a difference of two timestamps
Days(h) == h \div HoursPerDay

At(col, k) == col[k + 1]

Set(col, k, v) == [col EXCEPT ![k + 1] = v]

Last(col) == col[Len(col)]

----------------------------------------------------------------------------
(* Initial state: a strategy object and a price frame, before backtest *)

Init ==
    \E inp \in Inputs :
        /\ initial_capital = inp.capital
        /\ caller_df = [index |-> inp.index, Close |-> inp.Close]
        /\ strategy_signals = inp.signal
        /\ pc = "call"
        /\ index = <<>>
        /\ Close = <<>>
        /\ signal_line = <<>>
        /\ position = <<>>
        /\ cash = <<>>
        /\ holdings = <<>>
        /\ total_value = <<>>
        /\ returns = <<>>
        /\ cumulative_returns = <<>>
        /\ trades = <<>>
        /\ current_position = 0
        /\ entry_price = 0
        /\ entry_date = <<>>
        /\ i = 1
        /\ entries = <<>>
        /\ metrics = <<>>
        /\ formatted_metrics = <<>>
        /\ prev = <<>>

----------------------------------------------------------------------------
(* backtest, lines 25-39: copy, signals, portfolio columns, locals *)

\* SetupLocals with the trade list kept from the previous call
SetupLocalsKeepTrades ==
    /\ UNCHANGED trades
    /\ current_position' = 0
    /\ entry_price' = 0
    /\ entry_date' = <<>>

\* lines 36-39: the locals of a run
SetupLocals ==
    /\ trades' = <<>>
    /\ current_position' = 0
    /\ entry_price' = 0
    /\ entry_date' = <<>>

\* Setup with a total_value column that starts at 0
SetupZeroBaseline ==
    /\ pc = "call"
    /\ index' = caller_df.index
    /\ Close' = caller_df.Close
    /\ signal_line' = strategy_signals
    /\ position' = [k \in 1..Len(caller_df.Close) |-> 0]
    /\ cash' = [k \in 1..Len(caller_df.Close) |-> initial_capital]
    /\ holdings' = [k \in 1..Len(caller_df.Close) |-> 0]
    /\ total_value' = [k \in 1..Len(caller_df.Close) |-> 0]
    /\ returns' = [k \in 1..Len(caller_df.Close) |-> Zero]
    /\ cumulative_returns' = <<>>
    /\ SetupLocals
    /\ entries' = <<>>
    /\ i' = 1
    /\ pc' = IF 1 < Len(caller_df.Close) THEN "carry" ELSE "final"
    /\ UNCHANGED <<initial_capital, caller_df, strategy_signals, metrics, formatted_metrics,
                   prev>>

Setup ==
    /\ pc = "call"
    /\ index' = caller_df.index
    /\ Close' = caller_df.Close
    /\ signal_line' = strategy_signals
    /\ position' = [k \in 1..Len(caller_df.Close) |-> 0]
    /\ cash' = [k \in 1..Len(caller_df.Close) |-> initial_capital]
    /\ holdings' = [k \in 1..Len(caller_df.Close) |-> 0]
    /\ total_value' = [k \in 1..Len(caller_df.Close) |-> initial_capital]
    /\ returns' = [k \in 1..Len(caller_df.Close) |-> Zero]
    /\ cumulative_returns' = <<>>
    /\ SetupLocals
    /\ entries' = <<>>
    /\ i' = 1
    /\ pc' = IF 1 < Len(caller_df.Close) THEN "carry" ELSE "final"
    /\ UNCHANGED <<initial_capital, caller_df, strategy_signals, metrics, formatted_metrics,
                   prev>>

\* Holdings that loses the sign of a short position
HoldingsUnsigned(pos, price) == Abs(pos) * price

\* lines 49 and 99: the holdings of a position marked at a price
Holdings(pos, price) == pos * price

(* lines 42-49: carry the position and the cash forward into bar i *)
Carry ==
    /\ pc = "carry"
    /\ position' = Set(position, i, current_position)
    /\ cash' = Set(cash, i, At(cash, i - 1))
    /\ holdings' = Set(holdings, i, Holdings(current_position, At(Close, i)))
    /\ pc' = "close"
    /\ UNCHANGED <<initial_capital, caller_df, strategy_signals, index, Close,
                   signal_line, total_value, returns, cumulative_returns,
                   trades, current_position, entry_price, entry_date, i,
                   entries, metrics, formatted_metrics,
                   prev>>

\* lines 52-53
ClosesPosition(signal, pos) ==
    \/ (signal = 1 /\ pos < 0)
    \/ (signal = -1 /\ pos > 0)

\* ProfitLoss with the long formula applied to shorts as well
ProfitLossLongOnly(pos, entry, exit) == (exit - entry) * Abs(pos)

\* lines 57-62 and 109-114
ProfitLoss(pos, entry, exit) ==
    IF pos > 0 THEN (exit - entry) * Abs(pos)
               ELSE (entry - exit) * Abs(pos)

ProfitLossPct(pos, entry, exit) ==
    IF pos > 0 THEN RatMulInt(RatAddInt(Rat(exit, entry), -1), 100)
               ELSE RatMulInt(RatAddInt(Rat(entry, exit), -1), 100)

\* MakeTrade that counts the duration from the exit back to the entry
MakeTradeBackdated(pos, entry, edate, exit, xdate) ==
    [entry_date     |-> edate,
     exit_date      |-> xdate,
     entry_price    |-> entry,
     exit_price     |-> exit,
     position_type  |-> IF pos > 0 THEN "LONG" ELSE "SHORT",
     profit_loss    |-> ProfitLoss(pos, entry, exit),
     profit_loss_pct |-> ProfitLossPct(pos, entry, exit),
     trade_duration |-> Days(edate - xdate)]

\* lines 64-73 and 116-125
MakeTrade(pos, entry, edate, exit, xdate) ==
    [entry_date     |-> edate,
     exit_date      |-> xdate,
     entry_price    |-> entry,
     exit_price     |-> exit,
     position_type  |-> IF pos > 0 THEN "LONG" ELSE "SHORT",
     profit_loss    |-> ProfitLoss(pos, entry, exit),
     profit_loss_pct |-> ProfitLossPct(pos, entry, exit),
     trade_duration |-> Days(xdate - edate)]

\* SettledCash that credits the buy-back of a short instead of debiting it
SettledCashUnsigned(c, pos, price) == c + Abs(pos) * price

\* line 75: cash after the whole position is settled at a price
SettledCash(c, pos, price) == c + pos * price

(* lines 51-78: close the position on an opposing signal *)
ClosePosition ==
    /\ pc = "close"
    /\ IF ClosesPosition(At(signal_line, i), current_position)
       THEN /\ trades' = Append(trades,
                   MakeTrade(current_position, entry_price, entry_date[1],
                             At(Close, i), At(index, i)))
            /\ cash' = Set(cash, i, SettledCash(At(cash, i), current_position, At(Close, i)))
            /\ position' = Set(position, i, 0)
            /\ holdings' = Set(holdings, i, 0)
            /\ current_position' = 0
       ELSE UNCHANGED <<trades, cash, position, holdings, current_position>>
    /\ pc' = "open"
    /\ UNCHANGED <<initial_capital, caller_df, strategy_signals, index, Close,
                   signal_line, total_value, returns, cumulative_returns,
                   entry_price, entry_date, i, entries, metrics, formatted_metrics,
                   prev>>

\* SharesToTrade rounding up instead of down
SharesToTradeCeil(c, price) == (c + price - 1) \div price

\* line 82
SharesToTrade(c, price) == c \div price

\* IsFlat without the test: the open rule runs on every bar
IsFlatAlways(pos) == TRUE

\* line 81: a position is opened only from flat
IsFlat(pos) == pos = 0

\* lines 84-85 and 91-92: the position a signal opens (0: none)
OpenedPosition(signal, shares) ==
    IF signal = 1 /\ shares > 0 THEN shares
    ELSE IF signal = -1 /\ shares > 0 THEN -shares
    ELSE 0

\* CashAfterOpen that debits a short sale like a purchase
CashAfterOpenDebit(c, signal, shares, price) ==
    IF signal # 0 /\ shares > 0 THEN c - shares * price ELSE c

\* lines 89 and 96: a long pays for its shares, a short is credited the proceeds
CashAfterOpen(c, signal, shares, price) ==
    IF signal = 1 /\ shares > 0 THEN c - shares * price
    ELSE IF signal = -1 /\ shares > 0 THEN c + shares * price
    ELSE c

(* lines 80-99: open a position on a signal when flat *)
OpenPosition ==
    /\ pc = "open"
    /\ IF IsFlat(current_position)
       THEN LET price == At(Close, i)
                signal == At(signal_line, i)
                shares_to_trade == SharesToTrade(At(cash, i), price)
                newpos == OpenedPosition(signal, shares_to_trade)
            IN  /\ current_position' = newpos
                /\ IF newpos # 0
                   THEN /\ entry_price' = price
                        /\ entry_date' = <<At(index, i)>>
                        /\ entries' = Append(entries,
                               [bar |-> i, date |-> At(index, i), price |-> price,
                                position |-> newpos])
                   ELSE UNCHANGED <<entry_price, entry_date, entries>>
                /\ cash' = Set(cash, i, CashAfterOpen(At(cash, i), signal, shares_to_trade, price))
                /\ position' = Set(position, i, newpos)
                /\ holdings' = Set(holdings, i, Holdings(newpos, price))
       ELSE UNCHANGED <<current_position, entry_price, entry_date, entries,
                        cash, position, holdings>>
    /\ pc' = "update"
    /\ UNCHANGED <<initial_capital, caller_df, strategy_signals, index, Close,
                   signal_line, total_value, returns, cumulative_returns,
                   trades, i, metrics, formatted_metrics,
                   prev>>

\* line 102
TotalValue(c, h) == c + h

\* line 103
Return(tv, prevtv) == RatAddInt(Rat(tv, prevtv), -1)

(* lines 101-103 and the loop header of line 41 *)
UpdateValue ==
    /\ pc = "update"
    /\ total_value' = Set(total_value, i, TotalValue(At(cash, i), At(holdings, i)))
    /\ returns' = Set(returns, i,
           Return(TotalValue(At(cash, i), At(holdings, i)), At(total_value, i - 1)))
    /\ i' = i + 1
    /\ pc' = IF i + 1 < Len(Close) THEN "carry" ELSE "final"
    /\ UNCHANGED <<initial_capital, caller_df, strategy_signals, index, Close,
                   signal_line, position, cash, holdings, cumulative_returns,
                   trades, current_position, entry_price, entry_date,
                   entries, metrics, formatted_metrics,
                   prev>>

(* ForceClose that also settles the closed position into the last bar *)
ForceCloseSettling ==
    /\ pc = "final"
    /\ IF current_position # 0
       THEN /\ trades' = Append(trades,
                   MakeTrade(current_position, entry_price, entry_date[1],
                             Last(Close), Last(index)))
            /\ cash' = [cash EXCEPT ![Len(cash)] =
                           SettledCash(Last(cash), current_position, Last(Close))]
            /\ position' = [position EXCEPT ![Len(position)] = 0]
            /\ holdings' = [holdings EXCEPT ![Len(holdings)] = 0]
       ELSE UNCHANGED <<trades, cash, position, holdings>>
    /\ pc' = "post"
    /\ UNCHANGED <<initial_capital, caller_df, strategy_signals, index, Close,
                   signal_line, total_value, returns,
                   cumulative_returns, current_position, entry_price,
                   entry_date, i, entries, metrics, formatted_metrics,
                   prev>>

(* lines 105-125: close any remaining position at the end *)
ForceClose ==
    /\ pc = "final"
    /\ IF current_position # 0
       THEN trades' = Append(trades,
                MakeTrade(current_position, entry_price, entry_date[1],
                          Last(Close), Last(index)))
       ELSE UNCHANGED trades
    /\ pc' = "post"
    /\ UNCHANGED <<initial_capital, caller_df, strategy_signals, index, Close,
                   signal_line, position, cash, holdings, total_value, returns,
                   cumulative_returns, current_position, entry_price,
                   entry_date, i, entries, metrics, formatted_metrics,
                   prev>>

\* line 128: (1 + returns).cumprod() - 1
RECURSIVE CumProd(_, _)
CumProd(col, k) ==
    IF k = 1 THEN RatAddInt(col[1], 1)
    ELSE RatMul(CumProd(col, k - 1), RatAddInt(col[k], 1))

CumulativeReturns(col) == [k \in 1..Len(col) |-> RatAddInt(CumProd(col, k), -1)]

(* lines 127-143: cumulative returns, then the trades DataFrame.  Naming    *)
(* the eight columns of pd.DataFrame([]) raises ValueError (length         *)
(* mismatch: the frame built from an empty list has no columns).           *)
PostPass ==
    /\ pc = "post"
    /\ cumulative_returns' = CumulativeReturns(returns)
    /\ pc' = IF Len(trades) = 0 THEN "raised" ELSE "done"
    /\ UNCHANGED <<initial_capital, caller_df, strategy_signals, index, Close,
                   signal_line, position, cash, holdings, total_value, returns,
                   trades, current_position, entry_price, entry_date, i,
                   entries, metrics, formatted_metrics,
                   prev>>

----------------------------------------------------------------------------
(* calculate_performance_metrics, called by app.py line 159 on the result  *)
(* of backtest.  A formatted string "{value:.2f} {arrow}" is the record     *)
(* [fixed2 |-> value in hundredths, arrow |-> ...]; inf and nan print as   *)
(* [nonfinite |-> ..., arrow |-> ...].  A plain number is [int |-> n] or   *)
(* [float |-> fraction].                                                   *)

PyInt(n) == [int |-> n]

PyFloat(r) == [float |-> r]

(* A float whose digits the model does not compute (a fractional power, a   *)
(* square root) is [irr |-> what it is, sign |-> -1 or 1]: finite, nonzero, *)
(* of known sign.  It prints as [approx |-> ..., arrow |-> ...].            *)
Irr(what, sign) == [irr |-> what, sign |-> sign]

IsIrr(value) == "irr" \in DOMAIN value

\* lines 151-154; "-0.00" is not told from "0.00"
add_arrow(value) ==
    IF IsIrr(value)
    THEN [approx |-> value.irr,
          arrow  |-> IF value.sign > 0 THEN "up" ELSE "down"]
    ELSE IF IsFinite(value)
    THEN [fixed2 |-> RoundHalfEven(RatMulInt(value, 100)),
          arrow  |-> IF RatLess(Zero, value) THEN "up" ELSE "down"]
    ELSE [nonfinite |-> IF value.num > 0 THEN "inf"
                        ELSE IF value.num < 0 THEN "-inf" ELSE "nan",
          arrow     |-> IF value.num > 0 THEN "up" ELSE "down"]

\* lines 156-157
TotalReturn(cumret) == RatMulInt(Last(cumret), 100)

\* line 160
ElapsedDays(idx) == Days(Last(idx) - idx[1])

(* line 161: ((1 + c) ** (365 / days) - 1) * 100 for days > 0.  The power  *)
(* is exact when c is 0, when the base is 0 and when the exponent is 1; a  *)
(* negative base gives nan unless 365/days is a whole (then odd) number;   *)
(* a double overflows to inf for a base of 7 or more over a single day     *)
(* (7 ** 365 > 1.8e308; bases below 48 stay finite over two days or more). *)
AnnualReturn(c, days) ==
    LET base == RatAddInt(c, 1)
    IN  IF ~IsFinite(c)
        THEN (IF c.num > 0 THEN Rat(1, 0)
              ELSE IF c.num < 0 /\ 365 % days = 0 THEN Rat(-1, 0)
              ELSE IF c.num < 0 THEN Rat(1, 0)
              ELSE Rat(0, 0))
        ELSE IF c = Zero THEN Zero
        ELSE IF base = Zero THEN Rat(-100, 1)
        ELSE IF days = 365 THEN RatMulInt(c, 100)
        ELSE IF base.num < 0
        THEN (IF 365 % days = 0 THEN Irr("annual_return", -1) ELSE Rat(0, 0))
        ELSE IF days = 1 /\ base.num >= 7 * base.den THEN Rat(1, 0)
        ELSE Irr("annual_return", Sign(c.num))

\* Series.std() of line 165: "nan", "zero" or "positive"
StdClass(rets) ==
    IF Len(rets) < 2 \/ \E k \in 1..Len(rets) : ~IsFinite(rets[k]) THEN "nan"
    ELSE IF \A k \in 1..Len(rets) : rets[k] = rets[1] THEN "zero"
    ELSE "positive"

\* line 165
Volatility(rets) ==
    IF StdClass(rets) = "nan" THEN Rat(0, 0)
    ELSE IF StdClass(rets) = "zero" THEN Zero
    ELSE Irr("volatility", 1)

(* the sign of annual_return/100 - risk_free_rate of line 169, 2 for nan.  *)
(* For an uncomputed positive annual return, (1 + c) ** e >= 1 + c * e     *)
(* (e >= 1) makes it positive as soon as the annual return is 2 or more,   *)
(* which every positive return over a few days is.                         *)
ExcessSign(annual) ==
    IF IsIrr(annual) THEN annual.sign
    ELSE IF ~IsFinite(annual) THEN (IF annual.num = 0 THEN 2 ELSE annual.num)
    ELSE Sign(annual.num - 2 * annual.den)

\* Sharpe that reports 0 instead of dividing by a zero volatility
SharpeGuarded(annual, vol) ==
    IF ExcessSign(annual) = 2 \/ (~IsIrr(vol) /\ ~IsFinite(vol)) THEN Rat(0, 0)
    ELSE IF vol = Zero THEN Zero
    ELSE IF ~IsIrr(annual) /\ ~IsFinite(annual) THEN Rat(ExcessSign(annual), 0)
    ELSE IF ExcessSign(annual) = 0 THEN Zero
    ELSE Irr("sharpe_ratio", ExcessSign(annual))

\* lines 168-169
Sharpe(annual, vol) ==
    IF ExcessSign(annual) = 2 \/ (~IsIrr(vol) /\ ~IsFinite(vol)) THEN Rat(0, 0)
    ELSE IF vol = Zero THEN Rat(ExcessSign(annual), 0)
    ELSE IF ~IsIrr(annual) /\ ~IsFinite(annual) THEN Rat(ExcessSign(annual), 0)
    ELSE IF ExcessSign(annual) = 0 THEN Zero
    ELSE Irr("sharpe_ratio", ExcessSign(annual))

\* Profitable that counts a trade with no profit and no loss as a winner
ProfitableOrFlat(log) == {k \in 1..Len(log) : log[k].profit_loss >= 0}

\* line 180: the positions in the log whose Kar/Zarar is > 0
Profitable(log) == {k \in 1..Len(log) : log[k].profit_loss > 0}

Unprofitable(log) == (1..Len(log)) \ Profitable(log)

RECURSIVE SumInt(_, _, _)
SumInt(log, ks, field) ==
    IF ks = {} THEN 0
    ELSE LET k == CHOOSE x \in ks : TRUE
         IN  log[k][field] + SumInt(log, ks \ {k}, field)

RECURSIVE SumRat(_, _, _)
SumRat(log, ks, field) ==
    IF ks = {} THEN Zero
    ELSE LET k == CHOOSE x \in ks : TRUE
         IN  RatAdd(log[k][field], SumRat(log, ks \ {k}, field))

\* Series.mean() of an integer column over the rows ks
MeanInt(log, ks, field) == Rat(SumInt(log, ks, field), Cardinality(ks))

MeanRat(log, ks, field) == RatDivInt(SumRat(log, ks, field), Cardinality(ks))

\* lines 173-175: the deepest drawdown of the equity curve, as a fraction
RECURSIVE CumMax(_, _)
CumMax(col, k) ==
    IF k = 1 THEN col[1]
    ELSE IF col[k] > CumMax(col, k - 1) THEN col[k] ELSE CumMax(col, k - 1)

Drawdown(col, k) == Rat(col[k] - CumMax(col, k), CumMax(col, k))

MinDrawdown(col) ==
    CHOOSE d \in {Drawdown(col, k) : k \in 1..Len(col)} :
        \A k \in 1..Len(col) : ~RatLess(Drawdown(col, k), d)

\* float(str(m).split()[0]): the number a metric prints as, read back
ParseMetric(m) ==
    IF "fixed2" \in DOMAIN m THEN Rat(m.fixed2, 100) ELSE Rat(m.int, 1)

\* ProfitFactor that falls back to 0 when there is nothing to divide by
ProfitFactorZeroDefault(avg_profit, avg_loss, winning, losing) ==
    IF avg_loss # PyInt(0) /\ losing > 0
    THEN LET q == Rat(ParseMetric(avg_profit).num * winning * ParseMetric(avg_loss).den,
                      ParseMetric(avg_profit).den * ParseMetric(avg_loss).num * losing)
         IN  add_arrow(Rat(Abs(q.num), q.den))
    ELSE PyInt(0)

\* lines 200-206
ProfitFactor(avg_profit, avg_loss, winning, losing) ==
    IF avg_loss # PyInt(0) /\ losing > 0
    THEN LET q == Rat(ParseMetric(avg_profit).num * winning * ParseMetric(avg_loss).den,
                      ParseMetric(avg_profit).den * ParseMetric(avg_loss).num * losing)
         IN  add_arrow(Rat(Abs(q.num), q.den))
    ELSE PyFloat(Rat(1, 0))

\* lines 187-198
AvgProfit(log) ==
    IF Cardinality(Profitable(log)) > 0
    THEN add_arrow(MeanInt(log, Profitable(log), "profit_loss"))
    ELSE PyInt(0)

AvgLoss(log) ==
    IF Cardinality(Unprofitable(log)) > 0
    THEN add_arrow(MeanInt(log, Unprofitable(log), "profit_loss"))
    ELSE PyInt(0)

\* lines 177-208: the trade metrics of a non-empty log
TradeMetrics(log) ==
    LET win   == Profitable(log)
        lose  == Unprofitable(log)
    IN  [total_trades   |-> PyInt(Len(log)),
         winning_trades |-> PyInt(Cardinality(win)),
         losing_trades  |-> PyInt(Len(log) - Cardinality(win)),
         win_rate       |-> add_arrow(Rat(Cardinality(win) * 100, Len(log))),
         avg_profit     |-> AvgProfit(log),
         avg_profit_pct |-> IF Cardinality(win) > 0
                            THEN add_arrow(MeanRat(log, win, "profit_loss_pct"))
                            ELSE PyInt(0),
         avg_loss       |-> AvgLoss(log),
         avg_loss_pct   |-> IF Cardinality(lose) > 0
                            THEN add_arrow(MeanRat(log, lose, "profit_loss_pct"))
                            ELSE PyInt(0),
         profit_factor  |-> ProfitFactor(AvgProfit(log), AvgLoss(log),
                                         Cardinality(win), Len(log) - Cardinality(win)),
         avg_trade_duration |-> PyFloat(MeanInt(log, 1..Len(log), "trade_duration"))]

\* DefaultTradeMetrics with the profit factor of a log without losers
DefaultTradeMetricsInfFactor ==
    [total_trades   |-> PyInt(0),
     winning_trades |-> PyInt(0),
     losing_trades  |-> PyInt(0),
     win_rate       |-> PyInt(0),
     avg_profit     |-> PyInt(0),
     avg_profit_pct |-> PyInt(0),
     avg_loss       |-> PyInt(0),
     avg_loss_pct   |-> PyInt(0),
     profit_factor  |-> PyFloat(Rat(1, 0)),
     avg_trade_duration |-> PyInt(0)]

\* lines 209-222: the defaults for an empty log
DefaultTradeMetrics ==
    [total_trades   |-> PyInt(0),
     winning_trades |-> PyInt(0),
     losing_trades  |-> PyInt(0),
     win_rate       |-> PyInt(0),
     avg_profit     |-> PyInt(0),
     avg_profit_pct |-> PyInt(0),
     avg_loss       |-> PyInt(0),
     avg_loss_pct   |-> PyInt(0),
     profit_factor  |-> PyInt(0),
     avg_trade_duration |-> PyInt(0)]

\* lines 146-224, for a frame whose first and last bars are a day or more apart
Metrics(idx, rets, cumret, tv, log) ==
    [total_return  |-> add_arrow(TotalReturn(cumret)),
     annual_return |-> add_arrow(AnnualReturn(Last(cumret), ElapsedDays(idx))),
     volatility    |-> add_arrow(Volatility(rets)),
     sharpe_ratio  |-> add_arrow(Sharpe(AnnualReturn(Last(cumret), ElapsedDays(idx)),
                                        Volatility(rets))),
     max_drawdown  |-> add_arrow(RatMulInt(MinDrawdown(tv), 100)),
     trade        |-> IF Len(log) > 0 THEN TradeMetrics(log)
                      ELSE DefaultTradeMetrics]

\* the metrics mapping without its grouping of the trade metrics
MetricAt(m, key) == IF key \in DOMAIN m THEN m[key] ELSE m.trade[key]

\* add_arrow of format_metrics_for_display: a number is formatted, a string
\* with a space is read back (float of its first word) and formatted again.
\* An uncomputed value is taken to print as a nonzero number.
display_add_arrow(value) ==
    IF "float" \in DOMAIN value THEN add_arrow(value.float)
    ELSE IF "int" \in DOMAIN value THEN add_arrow(Rat(value.int, 1))
    ELSE IF "fixed2" \in DOMAIN value
    THEN [fixed2 |-> value.fixed2,
          arrow  |-> IF value.fixed2 > 0 THEN "up" ELSE "down"]
    ELSE value

numeric_metrics ==
    {"total_return", "annual_return", "volatility", "win_rate", "max_drawdown",
     "avg_profit", "avg_loss", "avg_profit_pct", "avg_loss_pct", "sharpe_ratio",
     "profit_factor"}

count_metrics == {"total_trades", "winning_trades", "losing_trades"}

\* f"{value:.1f} gun": the duration in tenths of a day
FormatDuration(value) ==
    IF "float" \in DOMAIN value
    THEN [fixed1 |-> RoundHalfEven(RatMulInt(value.float, 10)), unit |-> "gun"]
    ELSE [fixed1 |-> value.int * 10, unit |-> "gun"]

\* visualizations.py, format_metrics_for_display
format_metrics_for_display(m) ==
    [key \in numeric_metrics \cup count_metrics \cup {"avg_trade_duration"} |->
        IF key \in numeric_metrics
        THEN (IF MetricAt(m, key) # PyInt(0)
              THEN display_add_arrow(MetricAt(m, key))
              ELSE MetricAt(m, key))
        ELSE IF key \in count_metrics THEN MetricAt(m, key)
        ELSE FormatDuration(MetricAt(m, key))]

(* app.py lines 159-160.  365/days at line 161 divides two Python numbers, *)
(* so a series whose first and last timestamps are less than a day apart   *)
(* raises ZeroDivisionError out of calculate_performance_metrics.          *)
CalcMetrics ==
    /\ pc = "done"
    /\ IF ElapsedDays(index) = 0
       THEN /\ pc' = "metrics_raised"
            /\ UNCHANGED <<metrics, formatted_metrics>>
       ELSE /\ pc' = "reported"
            /\ metrics' = Metrics(index, returns, cumulative_returns, total_value, trades)
            /\ formatted_metrics' = format_metrics_for_display(
                   Metrics(index, returns, cumulative_returns, total_value, trades))
    /\ UNCHANGED <<initial_capital, caller_df, strategy_signals, index, Close,
                   signal_line, position, cash, holdings, total_value, returns,
                   cumulative_returns, trades, current_position, entry_price,
                   entry_date, i, entries, prev>>

\* what a finished call of backtest and the metrics step hand to the caller
Outcome ==
    [pc |-> pc, position |-> position, cash |-> cash, holdings |-> holdings,
     total_value |-> total_value, returns |-> returns,
     cumulative_returns |-> cumulative_returns, trades |-> trades,
     metrics |-> metrics, formatted_metrics |-> formatted_metrics]

(* the caller runs the same strategy object on the same frame once more    *)
(* (app.py reruns lines 152-160 on every interaction)                      *)
Rerun ==
    /\ pc \in {"reported", "raised", "metrics_raised"}
    /\ prev = <<>>
    /\ prev' = <<Outcome>>
    /\ pc' = "call"
    /\ metrics' = <<>>
    /\ formatted_metrics' = <<>>
    /\ UNCHANGED <<initial_capital, caller_df, strategy_signals, index, Close,
                   signal_line, position, cash, holdings, total_value, returns,
                   cumulative_returns, trades, current_position, entry_price,
                   entry_date, i, entries>>

Next ==
    \/ Setup
    \/ Carry
    \/ ClosePosition
    \/ OpenPosition
    \/ UpdateValue
    \/ ForceClose
    \/ PostPass
    \/ CalcMetrics
    \/ Rerun

Spec == Init /\ [][Next]_vars

----------------------------------------------------------------------------
(* calculate_performance_metrics on its own.  It is a static method: the   *)
(* caller hands it a backtest frame and a trade table, here every equity   *)
(* curve of EquityCurves on daily or four-hourly bars with every trade log *)
(* of at most MaxTrades trades drawn from TradeChoices.                    *)

MaxTrades == 4

FourHourIndex(n) == [k \in 1..n |-> (k - 1) * 4]

EquityCurves ==
    { <<4, 4>>, <<4, 4, 4>>, <<4, 10>>, <<7, 7, -2>>, <<4, 2, 5>> }

TradeChoices ==
    { MakeTrade(3, 2, 0, 5, 24),
      MakeTrade(1, 2, 0, 3, 48),
      MakeTrade(-2, 5, 0, 2, 48),
      MakeTrade(3, 5, 24, 5, 24),
      MakeTrade(1, 3, 0, 2, 24),
      MakeTrade(-1, 2, 0, 5, 72) }

TradeLogs == UNION { [1..n -> TradeChoices] : n \in 0..MaxTrades }

\* the returns column backtest leaves for an equity curve (lines 34, 103)
ReturnsOf(tv) ==
    [k \in 1..Len(tv) |-> IF k = 1 THEN Zero ELSE Return(tv[k], tv[k - 1])]

MetricsInit ==
    \E tv \in EquityCurves, log \in TradeLogs, intraday \in BOOLEAN :
        /\ initial_capital = tv[1]
        /\ index = IF intraday THEN FourHourIndex(Len(tv)) ELSE DailyIndex(Len(tv))
        /\ caller_df = [index |-> index, Close |-> [k \in 1..Len(tv) |-> 2]]
        /\ strategy_signals = [k \in 1..Len(tv) |-> 0]
        /\ pc = "done"
        /\ Close = [k \in 1..Len(tv) |-> 2]
        /\ signal_line = [k \in 1..Len(tv) |-> 0]
        /\ position = [k \in 1..Len(tv) |-> 0]
        /\ cash = tv
        /\ holdings = [k \in 1..Len(tv) |-> 0]
        /\ total_value = tv
        /\ returns = ReturnsOf(tv)
        /\ cumulative_returns = CumulativeReturns(ReturnsOf(tv))
        /\ trades = log
        /\ current_position = 0
        /\ entry_price = 0
        /\ entry_date = <<>>
        /\ i = Len(tv)
        /\ entries = <<>>
        /\ metrics = <<>>
        /\ formatted_metrics = <<>>
        /\ prev = <<>>

MetricsNext == CalcMetrics

MetricsSpec == MetricsInit /\ [][MetricsNext]_vars

----------------------------------------------------------------------------
(* backtest on a frame whose timestamps are out of order: the second bar   *)
(* repeats the first one's timestamp, or the second and third bars have    *)
(* changed places.  backtest reads the index at lines 42, 118 and 124.     *)

DuplicateIndex(n) ==
    [k \in 1..n |-> IF k = 1 THEN 0 ELSE (k - 2) * HoursPerDay]

SwappedIndex(n) ==
    [k \in 1..n |-> IF k = 2 THEN 2 * HoursPerDay
                    ELSE IF k = 3 THEN HoursPerDay
                    ELSE (k - 1) * HoursPerDay]

MalformedIndexes(n) ==
    {DuplicateIndex(n)} \cup (IF n >= 3 THEN {SwappedIndex(n)} ELSE {})

MalformedInputs ==
    UNION { { [Close |-> c, signal |-> s, index |-> idx, capital |-> 4] :
                c \in [1..n -> {2, 5}], s \in [1..n -> Signals],
                idx \in MalformedIndexes(n) }
            : n \in 2..MaxBars }

InitMalformed ==
    \E inp \in MalformedInputs :
        /\ initial_capital = inp.capital
        /\ caller_df = [index |-> inp.index, Close |-> inp.Close]
        /\ strategy_signals = inp.signal
        /\ pc = "call"
        /\ index = <<>>
        /\ Close = <<>>
        /\ signal_line = <<>>
        /\ position = <<>>
        /\ cash = <<>>
        /\ holdings = <<>>
        /\ total_value = <<>>
        /\ returns = <<>>
        /\ cumulative_returns = <<>>
        /\ trades = <<>>
        /\ current_position = 0
        /\ entry_price = 0
        /\ entry_date = <<>>
        /\ i = 1
        /\ entries = <<>>
        /\ metrics = <<>>
        /\ formatted_metrics = <<>>
        /\ prev = <<>>

SpecMalformed == InitMalformed /\ [][Next]_vars

----------------------------------------------------------------------------
(* Properties *)

\* the rows of the working frame that the run has finished writing
Completed == IF pc = "call" THEN {} ELSE 0..(i - 1)

InLoop == pc \in {"carry", "close", "open", "update"}

ScenarioC1 ==
    /\ caller_df.Close = <<100, 105, 95, 110>>
    /\ strategy_signals = <<0, 1, -1, 0>>
    /\ initial_capital = 1000

\* C1 as stated: on closes [100, 105, 95, 110], signals [0, +1, -1, 0] and
\* capital 1000 the run buys 9 shares at bar 1 (cash 55), sells them at bar 2
\* (cash 910, total value 910), is flat at bar 3 (total value 910) and logs
\* exactly one Trade, with profit_loss -90.
EndToEndScenarioAsStated ==
    (ScenarioC1 /\ pc = "done") =>
        /\ At(position, 1) = 9 /\ At(cash, 1) = 55
        /\ At(position, 2) = 0 /\ At(cash, 2) = 910 /\ At(total_value, 2) = 910
        /\ At(position, 3) = 0 /\ At(total_value, 3) = 910
        /\ Len(trades) = 1
        /\ trades[1].profit_loss = -90

\* C1 (amended): on the same input the run buys 9 shares at bar 1 (cash 55);
\* at bar 2 it sells them at 95 (profit_loss -90, cash 910 after the close
\* step) and, the open rule being met on the same bar, sells 9 shares short
\* at 95 (cash 1765, total value 910); it holds the short at bar 3 (total
\* value 775); the log has exactly two Trades, the LONG with profit_loss -90
\* and the force-closed SHORT with profit_loss -135.
EndToEndScenario ==
    /\ (ScenarioC1 /\ pc = "open" /\ i = 2) =>
           /\ At(position, 1) = 9 /\ At(cash, 1) = 55
           /\ At(position, 2) = 0 /\ At(cash, 2) = 910
           /\ Len(trades) = 1
           /\ trades[1].profit_loss = -90
    /\ (ScenarioC1 /\ pc = "done") =>
           /\ position = <<0, 9, -9, -9>>
           /\ cash = <<1000, 55, 1765, 1765>>
           /\ total_value = <<1000, 1000, 910, 775>>
           /\ Len(trades) = 2
           /\ trades[1].position_type = "LONG"
           /\ trades[1].entry_price = 105 /\ trades[1].exit_price = 95
           /\ trades[1].profit_loss = -90
           /\ trades[2].position_type = "SHORT"
           /\ trades[2].entry_price = 95 /\ trades[2].exit_price = 110
           /\ trades[2].profit_loss = -135

EndToEndScenarioReturned == ScenarioC1 /\ pc = "done" /\ Len(trades) = 2

\* C2: on every finished bar of the augmented series, bar 0 and the bars
\* that close and/or open a position included, total_value is cash plus
\* holdings and holdings is position times close.
Conservation ==
    \A k \in Completed :
        /\ At(total_value, k) = At(cash, k) + At(holdings, k)
        /\ At(holdings, k) = At(position, k) * At(Close, k)

\* a returned series with a bar that closes a long and opens a short
ConservationAcrossReversal ==
    /\ pc = "done"
    /\ \E k \in 1..(Len(position) - 1) : position[k] > 0 /\ position[k + 1] < 0

EntriesUpTo(k) == Cardinality({e \in 1..Len(entries) : entries[e].bar <= k})

TradesUpTo(k) == Cardinality({t \in 1..Len(trades) : trades[t].exit_date <= At(index, k)})

\* C3: while the bars are processed the account holds at most one position:
\* on every finished bar position is nonzero iff one recorded entry has not
\* yet produced a Trade, never more than one entry is outstanding, and
\* consecutive Trades of the log do not overlap (exit_date[k] <=
\* entry_date[k+1]).
AtMostOneOpenPosition ==
    /\ (InLoop \/ pc = "final") =>
           /\ Len(entries) - Len(trades) \in {0, 1}
           /\ (current_position # 0) <=> (Len(entries) - Len(trades) = 1)
           /\ \A k \in Completed :
                  /\ EntriesUpTo(k) - TradesUpTo(k) \in {0, 1}
                  /\ (At(position, k) # 0) <=> (EntriesUpTo(k) - TradesUpTo(k) = 1)
    /\ \A k \in 1..(Len(trades) - 1) :
           trades[k].exit_date <= trades[k + 1].entry_date

\* two Trades in the log, the second position opened on the bar that closed
\* the first
TwoTradesBackToBack ==
    /\ pc = "done"
    /\ Len(trades) = 2
    /\ trades[1].exit_date = trades[2].entry_date

AllSignalsZero == \A k \in 1..Len(strategy_signals) : strategy_signals[k] = 0

\* C4 as stated: a series of at least 2 bars whose signal is 0 on every bar
\* makes backtest return normally with an empty trade log, and the metrics
\* of its result have every trade metric 0 and total_return 0.
ZeroTradeRun ==
    (AllSignalsZero /\ Len(caller_df.Close) >= 2) =>
        /\ pc # "raised"
        /\ pc \in {"done", "reported"} => trades = <<>>
        /\ pc = "reported" =>
               /\ metrics.trade = DefaultTradeMetrics
               /\ metrics.total_return = add_arrow(Zero)

\* C5: every Trade of the log, closed on an opposing signal or force-closed,
\* is LONG iff the position it closed was > 0, has the close of its entry
\* bar as entry_price and the close of its exit bar as exit_price, and has
\* profit_loss (exit - entry) * |position| if LONG and (entry - exit) *
\* |position| if SHORT; a long from 100 to 109 earns 9 per share, 9 per cent.
TradeProfitFormulas ==
    \A k \in 1..Len(trades) :
        /\ k <= Len(entries)
        /\ LET t == trades[k]
               e == entries[k]
           IN  /\ t.position_type \in {"LONG", "SHORT"}
               /\ (t.position_type = "LONG") <=> (e.position > 0)
               /\ t.entry_date = At(index, e.bar)
               /\ t.entry_price = At(Close, e.bar)
               /\ \E b \in e.bar..(Len(Close) - 1) :
                      /\ t.exit_date = At(index, b)
                      /\ t.exit_price = At(Close, b)
                      /\ \A j \in e.bar..(b - 1) : At(position, j) = e.position
               /\ t.position_type = "LONG" =>
                      t.profit_loss = (t.exit_price - t.entry_price) * Abs(e.position)
               /\ t.position_type = "SHORT" =>
                      t.profit_loss = (t.entry_price - t.exit_price) * Abs(e.position)
               /\ (t.position_type = "LONG" /\ t.entry_price = 100 /\ t.exit_price = 109) =>
                      /\ t.profit_loss = 9 * Abs(e.position)
                      /\ t.profit_loss_pct = Rat(9, 1)

\* a long from 100 to 109 closed by a sell signal, and a force-closed short
LongFrom100To109 ==
    /\ pc = "done"
    /\ Len(trades) = 2
    /\ trades[1].position_type = "LONG"
    /\ trades[1].entry_price = 100 /\ trades[1].exit_price = 109
    /\ trades[2].position_type = "SHORT"
    /\ trades[2].exit_date = Last(index)

\* C6: on a bar whose signal opposes the open position (signal +1 while
\* short, -1 while long) the close step appends exactly one Trade at the
\* bar's close, makes cash the previous bar's cash plus position * close,
\* and leaves position and holdings 0 when the open rule is evaluated.
CloseOnOpposingSignal ==
    [][ ( /\ pc = "close"
          /\ \/ (At(signal_line, i) = 1 /\ At(position, i) < 0)
             \/ (At(signal_line, i) = -1 /\ At(position, i) > 0) )
        => /\ pc' = "open"
           /\ Len(trades') = Len(trades) + 1
           /\ SubSeq(trades', 1, Len(trades)) = trades
           /\ Last(trades').exit_price = At(Close, i)
           /\ Last(trades').exit_date = At(index, i)
           /\ At(cash', i) = At(cash, i - 1) + At(position, i) * At(Close, i)
           /\ At(position', i) = 0
           /\ At(holdings', i) = 0
           /\ current_position' = 0 ]_vars

\* the open rule is about to run on a bar that has just covered a short
ShortCoveredOnThisBar ==
    /\ pc = "open"
    /\ Len(trades) > 0
    /\ Last(trades).exit_date = At(index, i)
    /\ Last(trades).position_type = "SHORT"
    /\ current_position = 0

\* C7: on a bar that is flat after the close step, with a nonzero signal and
\* shares = floor(cash / close) > 0, signal +1 sets position = shares and
\* takes shares * close from cash, signal -1 sets position = -shares and
\* adds shares * close to cash; either way entry_price is the bar's close
\* and entry_date its timestamp.
OpenOnSignal ==
    [][ ( /\ pc = "open"
          /\ current_position = 0
          /\ At(signal_line, i) # 0
          /\ At(cash, i) \div At(Close, i) > 0 )
        => LET shares == At(cash, i) \div At(Close, i)
           IN  /\ At(signal_line, i) = 1 =>
                      /\ current_position' = shares
                      /\ At(position', i) = shares
                      /\ At(cash', i) = At(cash, i) - shares * At(Close, i)
               /\ At(signal_line, i) = -1 =>
                      /\ current_position' = -shares
                      /\ At(position', i) = -shares
                      /\ At(cash', i) = At(cash, i) + shares * At(Close, i)
               /\ entry_price' = At(Close, i)
               /\ entry_date' = <<At(index, i)>> ]_vars

\* a short has just been opened on bar i
ShortOpenedOnThisBar ==
    /\ pc = "update"
    /\ current_position < 0
    /\ entry_date = <<At(index, i)>>
    /\ At(cash, i) > At(cash, i - 1)

\* C8: when the account is flat, the signal is nonzero and floor(cash /
\* close) is not positive, the open rule does nothing: no position, no
\* Trade, no error, and cash, entry_price and entry_date stay as they were
\* (cash equal to the previous bar's if the bar began flat).
UnaffordableSignalIsNoOp ==
    [][ ( /\ pc = "open"
          /\ current_position = 0
          /\ At(signal_line, i) # 0
          /\ At(cash, i) \div At(Close, i) <= 0 )
        => /\ pc' = "update"
           /\ current_position' = 0
           /\ At(position', i) = 0
           /\ trades' = trades
           /\ entries' = entries
           /\ At(cash', i) = At(cash, i)
           /\ (At(position, i - 1) = 0 => At(cash', i) = At(cash, i - 1))
           /\ entry_price' = entry_price
           /\ entry_date' = entry_date ]_vars

\* a flat bar with a buy or sell signal and less cash than one share costs
UnaffordableSignalDropped ==
    /\ pc = "update"
    /\ At(signal_line, i) # 0
    /\ At(position, i - 1) = 0
    /\ current_position = 0
    /\ At(cash, i) >= 0
    /\ At(cash, i) < At(Close, i)

\* C9: when a position is still open after the last bar, the force-close
\* appends exactly one Trade, at the last close and the last timestamp, and
\* changes nothing in the augmented series: the last bar keeps its nonzero
\* position and the cash, holdings and total_value the loop computed.
ForceCloseLeavesSeries ==
    [][ (pc = "final" /\ current_position # 0)
        => /\ Len(trades') = Len(trades) + 1
           /\ SubSeq(trades', 1, Len(trades)) = trades
           /\ Last(trades').exit_price = Last(Close)
           /\ Last(trades').exit_date = Last(index)
           /\ position' = position
           /\ cash' = cash
           /\ holdings' = holdings
           /\ total_value' = total_value
           /\ returns' = returns
           /\ Last(position') = current_position
           /\ Last(position') # 0 ]_vars

\* a run that has force-closed a position it still held after the last bar
ForceClosed ==
    /\ pc = "post"
    /\ current_position # 0
    /\ Last(position) # 0
    /\ Len(trades) > 0
    /\ Last(trades).exit_date = Last(index)

\* C10: a second backtest on the same bars, signals and capital ends like
\* the first, with the same augmented series and the same trade log, and no
\* step of a run changes the caller's bar series.
DeterministicAndPure ==
    /\ []((prev # <<>> /\ pc \in {"reported", "raised", "metrics_raised"})
              => Outcome = prev[1])
    /\ [][caller_df' = caller_df]_vars

\* a second run that has finished with at least two Trades
SecondRunReported ==
    /\ prev # <<>>
    /\ pc = "reported"
    /\ Len(trades) >= 2

----------------------------------------------------------------------------
(* Properties of calculate_performance_metrics and of the display step *)

StrictlyIncreasing(idx) == \A k \in 1..(Len(idx) - 1) : idx[k] < idx[k + 1]

Winners == {k \in 1..Len(trades) : trades[k].profit_loss > 0}

Losers == {k \in 1..Len(trades) : trades[k].profit_loss <= 0}

IsNonFinite(m) == "nonfinite" \in DOMAIN m \/ m = PyFloat(Rat(1, 0))

\* C11: for a non-empty trade log with at least one winner (profit_loss > 0)
\* and no loser, calculate_performance_metrics yields the profit factor
\* +infinity.
ProfitFactorWithoutLosers ==
    (pc = "reported" /\ Winners # {} /\ Losers = {})
        => metrics.trade.profit_factor = PyFloat(Rat(1, 0))

\* metrics reported for a log of two winners
TwoWinnersReported ==
    /\ pc = "reported"
    /\ Len(trades) = 2
    /\ Cardinality(Winners) = 2
    /\ metrics.trade.profit_factor = PyFloat(Rat(1, 0))

\* C12 as stated: a run on fewer than 2 bars is rejected before the
\* simulation loop starts; it never gets to the loop, to the end-of-series
\* step after it or to the cumulative returns.
InsufficientDataRejected ==
    Len(caller_df.Close) < 2
        => pc \notin {"carry", "close", "open", "update", "final", "post"}

\* C13 as stated: when the last timestamp is less than a whole day after
\* the first, calculate_performance_metrics does not raise and returns a
\* mapping whose annual_return and sharpe_ratio are non-finite.
DegenerateDateRangeReported ==
    (pc \in {"reported", "metrics_raised"} /\ ElapsedDays(index) = 0)
        => /\ pc = "reported"
           /\ IsNonFinite(metrics.annual_return)
           /\ IsNonFinite(metrics.sharpe_ratio)

\* C14: when all per-bar returns are the same value and the series spans a
\* day or more, calculate_performance_metrics does not raise, sharpe_ratio
\* is reported non-finite and volatility is reported as 0.
ZeroVarianceReported ==
    (/\ pc \in {"reported", "metrics_raised"}
     /\ Len(returns) >= 2
     /\ \A k \in 1..Len(returns) : returns[k] = returns[1]
     /\ ElapsedDays(index) > 0)
        => /\ pc = "reported"
           /\ IsNonFinite(metrics.sharpe_ratio)
           /\ metrics.volatility.fixed2 = 0

\* metrics reported for three daily bars of an unchanged portfolio value
FlatEquityReported ==
    /\ pc = "reported"
    /\ total_value = <<4, 4, 4>>
    /\ metrics.sharpe_ratio = [nonfinite |-> "-inf", arrow |-> "down"]
    /\ metrics.volatility = [fixed2 |-> 0, arrow |-> "down"]

\* C15 as stated: a bar series whose timestamps are not strictly increasing
\* is rejected before the first iteration of the simulation loop, so the
\* run never enters the loop and no Trade is ever produced from it.
MalformedInputRejected ==
    ~StrictlyIncreasing(caller_df.index) => (~InLoop /\ trades = <<>>)

\* C16 as stated: after calculate_performance_metrics and
\* format_metrics_for_display every numeric metric other than the counts is
\* a string '<value to 2 decimals> <arrow>', a value of exactly 0 being
\* annotated with the down arrow.
EveryNumericMetricAnnotated ==
    pc = "reported" =>
        \A key \in numeric_metrics :
            /\ "arrow" \in DOMAIN formatted_metrics[key]
            /\ (MetricAt(metrics, key) = PyInt(0)
                   => formatted_metrics[key] = [fixed2 |-> 0, arrow |-> "down"])

\* C17 as stated: for a non-empty trade log total_trades is the number of
\* trades, winning_trades the number with profit_loss > 0, losing_trades
\* the complement, the two add up to total_trades, and win_rate is
\* winning_trades / total_trades * 100.
TradeCountsAsStated ==
    (pc = "reported" /\ Len(trades) > 0) =>
        /\ metrics.trade.total_trades = PyInt(Len(trades))
        /\ metrics.trade.winning_trades = PyInt(Cardinality(Winners))
        /\ metrics.trade.losing_trades = PyInt(Cardinality(Losers))
        /\ Cardinality(Winners) + Cardinality(Losers) = Len(trades)
        /\ ParseMetric(metrics.trade.win_rate)
               = Rat(Cardinality(Winners) * 100, Len(trades))

\* C17 (amended): for a non-empty trade log total_trades is the number of
\* trades, winning_trades the number with profit_loss > 0, losing_trades
\* the complement (a trade with profit_loss == 0 counts as losing), the two
\* add up to total_trades, and win_rate is winning_trades / total_trades *
\* 100 rounded to two decimals, with the up arrow iff there is a winner.
TradeCounts ==
    (pc = "reported" /\ Len(trades) > 0) =>
        /\ metrics.trade.total_trades = PyInt(Len(trades))
        /\ metrics.trade.winning_trades = PyInt(Cardinality(Winners))
        /\ metrics.trade.losing_trades = PyInt(Cardinality(Losers))
        /\ Cardinality(Winners) + Cardinality(Losers) = Len(trades)
        /\ metrics.trade.win_rate =
               [fixed2 |-> RoundHalfEven(Rat(Cardinality(Winners) * 10000, Len(trades))),
                arrow  |-> IF Cardinality(Winners) > 0 THEN "up" ELSE "down"]

\* metrics reported for two winners, one of three trades having neither
\* profit nor loss
TwoOfThreeWon ==
    /\ pc = "reported"
    /\ Len(trades) = 3
    /\ Cardinality(Winners) = 2
    /\ \E k \in Losers : trades[k].profit_loss = 0
    /\ metrics.trade.win_rate = [fixed2 |-> 6667, arrow |-> "up"]

\* C18 as stated: for a trade log with at least one losing trade the profit
\* factor is |avg_profit * winning_trades / (avg_loss * losing_trades)| with
\* the exact means of profit_loss over the winners and over the losers,
\* that is |sum of the winners' profit_loss / sum of the losers'
\* profit_loss|; checked where the losers' sum is not zero.
ProfitFactorFromExactMeans ==
    (pc = "reported" /\ Losers # {} /\ SumInt(trades, Losers, "profit_loss") # 0) =>
        metrics.trade.profit_factor =
            add_arrow(Rat(Abs(SumInt(trades, Winners, "profit_loss")),
                          Abs(SumInt(trades, Losers, "profit_loss"))))

\* C19: on bars with strictly increasing timestamps and positive closes
\* every Trade in the log has entry_date <= exit_date, a trade_duration of
\* the whole days between them (>= 0), positive entry and exit prices and
\* the type LONG or SHORT, and no step of a run changes or removes a Trade
\* that is already in the log.
TradeRecordsWellFormed ==
    /\ []((StrictlyIncreasing(caller_df.index)
             /\ \A k \in 1..Len(caller_df.Close) : caller_df.Close[k] > 0)
          => \A k \in 1..Len(trades) :
                /\ trades[k].entry_date <= trades[k].exit_date
                /\ trades[k].trade_duration
                       = Days(trades[k].exit_date - trades[k].entry_date)
                /\ trades[k].trade_duration >= 0
                /\ trades[k].entry_price > 0
                /\ trades[k].exit_price > 0
                /\ trades[k].position_type \in {"LONG", "SHORT"})
    /\ [][pc # "call" => /\ Len(trades') >= Len(trades)
                         /\ SubSeq(trades', 1, Len(trades)) = trades]_vars

\* a returned log of two Trades, the first of which was held overnight
TwoTradesLogged ==
    /\ pc = "done"
    /\ Len(trades) = 2
    /\ trades[1].trade_duration >= 1
    /\ trades[1].exit_date <= trades[2].entry_date

\* C20: given an empty trade log, calculate_performance_metrics reports
\* total_trades, winning_trades, losing_trades, win_rate, avg_profit,
\* avg_profit_pct, avg_loss, avg_loss_pct, profit_factor and
\* avg_trade_duration as exactly 0.
EmptyLogDefaults ==
    (pc = "reported" /\ trades = <<>>) =>
        \A key \in {"total_trades", "winning_trades", "losing_trades",
                    "win_rate", "avg_profit", "avg_profit_pct", "avg_loss",
                    "avg_loss_pct", "profit_factor", "avg_trade_duration"} :
            metrics.trade[key] = PyInt(0)

\* metrics reported for an empty trade log
EmptyLogReported ==
    /\ pc = "reported"
    /\ trades = <<>>
    /\ metrics.trade.profit_factor = PyInt(0)
    /\ DOMAIN metrics.trade = DOMAIN DefaultTradeMetrics

----------------------------------------------------------------------------
(* Properties of the bar loop as a whole *)

\* the close step has just closed the position carried into bar i
ClosedOnThisBar ==
    /\ pc = "open"
    /\ At(position, i - 1) # 0
    /\ At(position, i) = 0

\* C21: on a bar whose signal closes the open position the close step runs
\* first and the open rule is evaluated on the post-close cash at the same
\* close: the opposite position is opened iff floor(post-close cash / close)
\* > 0, and then its entry_price is the closed Trade's exit_price and its
\* entry_date the closed Trade's exit_date; otherwise the bar ends flat.
CloseThenOpenOnSameBar ==
    [][ ClosedOnThisBar
        => LET price    == At(Close, i)
               postcash == At(cash, i - 1) + At(position, i - 1) * price
               shares   == postcash \div price
           IN  /\ At(cash, i) = postcash
               /\ current_position = 0
               /\ Last(trades).exit_price = price
               /\ Last(trades).exit_date = At(index, i)
               /\ shares > 0 =>
                      /\ current_position' = -Sign(At(position, i - 1)) * shares
                      /\ At(position', i) = current_position'
                      /\ entry_price' = Last(trades).exit_price
                      /\ entry_date' = <<Last(trades).exit_date>>
               /\ shares <= 0 =>
                      /\ current_position' = 0
                      /\ At(position', i) = 0
                      /\ At(cash', i) = postcash ]_vars

\* a bar that closed a long and, the open rule being met, ends short
ReversedOnThisBar ==
    /\ pc = "update"
    /\ At(position, i - 1) > 0
    /\ At(position, i) < 0
    /\ Last(trades).exit_date = At(index, i)
    /\ entry_price = Last(trades).exit_price

\* bar k neither closes nor may open a position: its signal is 0 or points
\* the way of the position carried into it
CarryBar(k) ==
    \/ At(signal_line, k) = 0
    \/ (At(signal_line, k) = 1 /\ At(position, k - 1) > 0)
    \/ (At(signal_line, k) = -1 /\ At(position, k - 1) < 0)

\* C22: on a bar whose signal is 0, or +1 while long, or -1 while short,
\* position and cash are those of the previous bar, holdings is position *
\* close, and no step of the bar changes entry_price or entry_date or
\* appends a Trade.
CarryForward ==
    /\ [](\A k \in Completed \ {0} :
             CarryBar(k) => /\ At(position, k) = At(position, k - 1)
                            /\ At(cash, k) = At(cash, k - 1)
                            /\ At(holdings, k) = At(position, k) * At(Close, k))
    /\ [][(InLoop /\ CarryBar(i))
             => /\ entry_price' = entry_price
                /\ entry_date' = entry_date
                /\ current_position' = current_position
                /\ trades' = trades]_vars

\* a long held through bar 2, which carried a second buy signal at a close
\* the remaining cash could have paid for
BuySignalWhileLong ==
    /\ pc \in {"carry", "final"}
    /\ i = 3
    /\ At(signal_line, 2) = 1
    /\ At(position, 1) > 0
    /\ At(position, 2) = At(position, 1)
    /\ At(Close, 2) # At(Close, 1)
    /\ At(cash, 2) \div At(Close, 2) > 0

\* C23: whatever signal bar 0 carries, no position is opened or closed on
\* bar 0, and bar 0 has position 0, cash initial_capital, holdings 0,
\* total_value initial_capital and returns 0.
BarZeroIsBaseline ==
    (pc # "call" /\ Len(Close) > 0) =>
        /\ At(position, 0) = 0
        /\ At(cash, 0) = initial_capital
        /\ At(holdings, 0) = 0
        /\ At(total_value, 0) = initial_capital
        /\ At(returns, 0) = Zero
        /\ \A e \in 1..Len(entries) : entries[e].bar >= 1
        /\ \A t \in 1..Len(trades) : trades[t].exit_date > At(index, 0)

\* a run whose bar 0 carried a buy signal and which first traded on bar 1
SignalOnBarZeroIgnored ==
    /\ pc = "done"
    /\ At(signal_line, 0) = 1
    /\ Len(entries) > 0
    /\ entries[1].bar = 1

\* backtest has passed the end-of-series force-close
Finished == pc \in {"post", "done", "raised", "reported", "metrics_raised"}

\* C24 as stated: on every bar cumulative_returns is total_value /
\* initial_capital - 1, and total_return is (final total_value /
\* initial_capital - 1) * 100.
CumulativeReturnTelescopes ==
    /\ pc \in {"done", "raised", "reported", "metrics_raised"} =>
           \A k \in 0..(Len(total_value) - 1) :
               At(cumulative_returns, k)
                   = RatAddInt(Rat(At(total_value, k), initial_capital), -1)
    /\ pc = "reported" =>
           metrics.total_return
               = add_arrow(RatMulInt(RatAddInt(Rat(Last(total_value), initial_capital), -1),
                                     100))

\* C25: once backtest has force-closed what was left, the profit_loss of
\* all Trades in the log adds up to final total_value - initial_capital.
TradeLogMatchesEquity ==
    Finished =>
        SumInt(trades, 1..Len(trades), "profit_loss")
            = Last(total_value) - initial_capital

\* a returned log of a LONG and a force-closed SHORT that changed the
\* account's value
LongAndShortSettled ==
    /\ pc = "done"
    /\ Len(trades) = 2
    /\ trades[1].position_type = "LONG"
    /\ trades[2].position_type = "SHORT"
    /\ trades[2].profit_loss # 0
    /\ Last(total_value) # initial_capital

\* C26: for every bar i >= 1, total_value[i] - total_value[i-1] is
\* position[i-1] * (close[i] - close[i-1]) and total_value[i] is cash[i-1]
\* + position[i-1] * close[i], whether the bar carries, closes, opens or
\* closes and reopens a position.
TradingIsValueNeutral ==
    \A k \in Completed \ {0} :
        /\ At(total_value, k) - At(total_value, k - 1)
               = At(position, k - 1) * (At(Close, k) - At(Close, k - 1))
        /\ At(total_value, k)
               = At(cash, k - 1) + At(position, k - 1) * At(Close, k)

\* bar 2 has closed a short at a new close and reopened long
ShortTurnedLongAtNewClose ==
    /\ pc \in {"carry", "final"}
    /\ i = 3
    /\ At(position, 1) < 0
    /\ At(position, 2) > 0
    /\ At(Close, 2) # At(Close, 1)

\* C27 as stated: with positive closes, signals in {-1, 0, 1} and a
\* positive initial_capital, every bar has total_value > 0 and cash >= 0,
\* and its return is a finite number.
EquityStaysPositive ==
    \A k \in Completed :
        /\ At(total_value, k) > 0
        /\ At(cash, k) >= 0
        /\ IsFinite(At(returns, k))

\* C28 as stated: BuyHoldStrategy on N >= 3 bars with initial_capital >=
\* close[1] is never short on any bar and returns a log of exactly one
\* Trade, a LONG entered at bar 1 and exited at the last bar.
BuyHoldIsLongOnly ==
    (/\ strategy_signals = generate_signals(Len(caller_df.Close))
     /\ Len(caller_df.Close) >= 3
     /\ initial_capital >= At(caller_df.Close, 1)
     /\ pc = "done")
        => /\ \A k \in 0..(Len(position) - 1) : At(position, k) >= 0
           /\ Len(trades) = 1
           /\ trades[1].position_type = "LONG"
           /\ trades[1].entry_date = At(index, 1)
           /\ trades[1].exit_date = Last(index)

\* C29: at the end of backtest the log has one Trade per opened position,
\* the k-th Trade carries the date and price of the k-th opening, and the
\* openings happened on distinct bars in that order.
EveryOpenClosedOnce ==
    Finished =>
        /\ Len(trades) = Len(entries)
        /\ \A k \in 1..Len(entries) :
               /\ trades[k].entry_date = entries[k].date
               /\ trades[k].entry_price = entries[k].price
        /\ \A k \in 1..(Len(entries) - 1) : entries[k].bar < entries[k + 1].bar

\* a returned log of two Trades opened on bars 1 and 2, the second of them
\* force-closed
TwoOpeningsLogged ==
    /\ pc = "done"
    /\ Len(entries) = 2
    /\ Len(trades) = 2
    /\ entries[1].bar = 1
    /\ entries[2].bar = 2
    /\ trades[1].exit_date < Last(index)
    /\ trades[2].exit_date = Last(index)

====
